---- MODULE Spec2Model ----
(***************************************************************************)
(* Model of the ITMO curriculum scraper (src/scraper.py).                  *)
(*                                                                         *)
(* Text is a sequence of Unicode code points, so that the character        *)
(* classes of the regular expressions are the code-point ranges the        *)
(* source writes: \d is 48..57, [a-zA-Z] is 97..122 and 65..90, the        *)
(* Cyrillic ranges U+0430..U+044F and U+0410..U+042F are 1072..1103 and    *)
(* 1040..1071 (U+0451 and U+0401, the letters io, lie outside both).       *)
(***************************************************************************)
EXTENDS Integers, Sequences, FiniteSets, TLC

VARIABLES
    \* ---- parse_courses_from_pdf_text, one finditer iteration per step ----
    pdf_text,        \* the argument of parse_courses_from_pdf_text
    processed_text,  \* the text after Step 1 (the two re.sub calls)
    scan_pos,        \* where finditer resumes its scan (1-based)
    courses,         \* the list of Course records built so far
    matched,         \* history: every match finditer yielded, and its fate
    ppc,             \* "start" | "scan" | "done"
    \* ---- main and scrape_program_data, one stage per step ----
    pc,              \* position of the run
    url_idx,         \* index in urls of the URL being processed
    soup,            \* the fetched page of the current URL
    program_name,    \* result of extract_program_name
    next_data,       \* result of extract_next_data
    program_id,      \* result of extract_program_id
    pdf_bytes,       \* result of download_pdf
    pdf_content,     \* result of parse_pdf_content
    data,            \* result of scrape_program_data for the current URL
    all_data,        \* the Dataset being assembled by main
    artifact,        \* content of itmo_programs.json on disk
    prev_artifact,   \* history: artifact when the current run started
    save_result,     \* history: outcome of this run's save_data_to_json
    stage,           \* history: per URL and stage, "none" | "ok" | "fail"
    execs,           \* history: per URL and stage, times executed in this run
    gets,            \* history: per URL, HTTP GETs issued (page, pdf)
    runs             \* history: number of runs started

parserVars == <<pdf_text, processed_text, scan_pos, courses, matched, ppc>>
pipelineVars == <<pc, url_idx, soup, program_name, next_data, program_id,
                  pdf_bytes, pdf_content, data, all_data, artifact,
                  prev_artifact, save_result, stage, execs, gets, runs>>
vars == <<parserVars, pipelineVars>>

-----------------------------------------------------------------------------
(* Bounds of the model.                                                    *)

\* Longest text, in characters, of the whitespace-repair specification.
MaxRepairLen == 5
\* Most tokens concatenated into an input text of the parser specification.
MaxTokens == 4
\* Most runs of main in one behaviour of the pipeline specification.
MaxRuns == 2
\* Most lines of an input text of the line-structured parser specification.
MaxLines == 2

-----------------------------------------------------------------------------
(* Characters and strings.                                                 *)

NL == 10
SP == 32

IsDigit(c) == c \in 48..57

\* The class [а-яА-Яa-zA-Z] of both substitutions.
IsLetter(c) ==
    \/ c \in 1072..1103
    \/ c \in 1040..1071
    \/ c \in 97..122
    \/ c \in 65..90

\* The class [а-яА-Яa-zA-Z/] of the second substitution.
IsLetterOrSlash(c) == IsLetter(c) \/ c = 47

\* \s of a str pattern, and the characters str.strip() removes.
IsSpace(c) == c \in 9..13 \/ c \in 28..32

\* "1, 2, 3"
Sem123 == <<49, 44, SP, 50, 44, SP, 51>>

\* str.lower() on one character: ASCII and Cyrillic capitals.
LowerChar(c) ==
    IF c \in 65..90 \/ c \in 1040..1071 THEN c + 32
    ELSE IF c \in 1024..1039 THEN c + 80
    ELSE c

Lower(s) == [i \in 1..Len(s) |-> LowerChar(s[i])]

\* str.strip()
Strip(s) ==
    LET keep == {i \in 1..Len(s) : ~IsSpace(s[i])}
    IN  IF keep = {} THEN <<>>
        ELSE LET lo == CHOOSE i \in keep : \A j \in keep : i <= j
                 hi == CHOOSE i \in keep : \A j \in keep : i >= j
             IN  SubSeq(s, lo, hi)

\* str.replace("\n", " ")
ReplaceNewlines(s) == [i \in 1..Len(s) |-> IF s[i] = NL THEN SP ELSE s[i]]

\* phrase in s
Contains(s, phrase) ==
    \E i \in 1..(Len(s) - Len(phrase) + 1) :
        SubSeq(s, i, i + Len(phrase) - 1) = phrase

\* int(s) of a string of decimal digits
RECURSIVE ToInt(_)
ToInt(s) ==
    IF s = <<>> THEN 0
    ELSE 10 * ToInt(SubSeq(s, 1, Len(s) - 1)) + (s[Len(s)] - 48)

-----------------------------------------------------------------------------
(* Step 1: whitespace repair.  re.sub replaces the non-overlapping matches *)
(* found scanning left to right; a match consumes both of its characters.  *)

RECURSIVE Sub1From(_, _)
Sub1FromAnyNonSpace(t, i) ==
    IF i > Len(t) THEN <<>>
    ELSE IF i < Len(t) /\ IsDigit(t[i]) /\ ~IsSpace(t[i + 1])
         THEN <<t[i], SP, t[i + 1]>> \o Sub1From(t, i + 2)
         ELSE <<t[i]>> \o Sub1From(t, i + 1)

\* re.sub(r"(\d)([а-яА-Яa-zA-Z])", r"\1 \2", t) from position i on
Sub1From(t, i) ==
    IF i > Len(t) THEN <<>>
    ELSE IF i < Len(t) /\ IsDigit(t[i]) /\ IsLetter(t[i + 1])
         THEN <<t[i], SP, t[i + 1]>> \o Sub1From(t, i + 2)
         ELSE <<t[i]>> \o Sub1From(t, i + 1)

\* re.sub(r"([а-яА-Яa-zA-Z/])(\d)", r"\1 \2", t) from position i on
RECURSIVE Sub2From(_, _)
Sub2From(t, i) ==
    IF i > Len(t) THEN <<>>
    ELSE IF i < Len(t) /\ IsLetterOrSlash(t[i]) /\ IsDigit(t[i + 1])
         THEN <<t[i], SP, t[i + 1]>> \o Sub2From(t, i + 2)
         ELSE <<t[i]>> \o Sub2From(t, i + 1)

Repair(t) == Sub2From(Sub1From(t, 1), 1)

-----------------------------------------------------------------------------
(* Step 2: course_pattern,                                                 *)
(*   ^(1, 2, 3|[1-4])\s+(.+?)\s+(\d{2,5})\s*$   with re.MULTILINE.         *)
(*                                                                         *)
(* Below, "\E x \in {e} : ..." and "{... : x \in {e}}" name the value of e *)
(* as x; a match is a set holding the match record, or the empty set.      *)

TheOnly(S) == CHOOSE x \in S : TRUE

\* Length of the run of whitespace that starts at position i.
RECURSIVE SpaceRun(_, _)
SpaceRun(t, i) ==
    IF i > Len(t) \/ ~IsSpace(t[i]) THEN 0 ELSE 1 + SpaceRun(t, i + 1)

\* Length of the run of digits that starts at position i.
RECURSIVE DigitRun(_, _)
DigitRun(t, i) ==
    IF i > Len(t) \/ ~IsDigit(t[i]) THEN 0 ELSE 1 + DigitRun(t, i + 1)

\* ^ under MULTILINE: the start of the text or just after a newline.
AtLineStart(t, s) == s = 1 \/ t[s - 1] = NL

\* $ under MULTILINE: the end of the text or just before a newline.
AtLineEnd(t, q) == q = Len(t) + 1 \/ t[q] = NL

\* The alternatives of the semester group that match at s, as lengths, in
\* the order the pattern tries them: the literal first, then [1-4].
SemesterAlts(t, s) ==
    (IF s + 6 <= Len(t) /\ SubSeq(t, s, s + 6) = Sem123 THEN <<7>> ELSE <<>>)
    \o (IF s <= Len(t) /\ t[s] \in 49..52 THEN <<1>> ELSE <<>>)

\* The lengths the trailing \s* can take after the digits end before de:
\* any part of the whitespace run that stops where $ matches.
TailLengths(t, de) ==
    {j \in 0..SpaceRun(t, de) : AtLineEnd(t, de + j)}

\* Whether the rest of the pattern matches when the first \s+ ends before
\* ns and the name ends before ne.  The second \s+ must take its whole run
\* (a digit has to follow it), and \d{2,5} the whole digit run (\s or $ has
\* to follow it).
RestMatches(t, ns, ne) ==
    /\ ne > ns
    /\ \A i \in ns..(ne - 1) : t[i] # NL                  \* . excludes \n
    /\ \E w \in {SpaceRun(t, ne)} :
          /\ w >= 1
          /\ \E d \in {DigitRun(t, ne + w)} :
                /\ d \in 2..5
                /\ TailLengths(t, ne + w + d) # {}

\* The ways the pattern matches at s: <<a, k, ne>> for semester alternative
\* alts[a], a first \s+ of k characters and a name that ends before ne.
Candidates(t, s, alts) ==
    UNION { UNION { UNION {
        { <<a, k, ne>> :
          ne \in {x \in (e1 + k + 1)..(Len(t) + 1) : RestMatches(t, e1 + k, x)} } :
        k \in 1..SpaceRun(t, e1) } :
        e1 \in {s + alts[a]} } :
        a \in DOMAIN alts }

\* Backtracking order: the semester alternatives in order, the first \s+
\* greedy (longest first), the name lazy (shortest first).
Before(c, e) ==
    \/ c[1] < e[1]
    \/ c[1] = e[1] /\ c[2] > e[2]
    \/ c[1] = e[1] /\ c[2] = e[2] /\ c[3] <= e[3]

\* The match record of candidate <<a, k, ne>>; the trailing \s* is greedy.
MatchOf(t, s, e1, ns, ne) ==
    UNION { UNION { UNION {
        { [start |-> s, end |-> de + j,
           semester |-> SubSeq(t, s, e1 - 1),
           name |-> SubSeq(t, ns, ne - 1),
           numbers |-> SubSeq(t, ds, de - 1),
           numStart |-> ds] :
          j \in {x \in tails : \A y \in tails : y <= x} } :
        tails \in {TailLengths(t, de)} } :
        de \in {ds + DigitRun(t, ds)} } :
        ds \in {ne + SpaceRun(t, ne)} }

\* The match at start position s: the first candidate in backtracking order.
MatchAt(t, s) ==
    IF ~AtLineStart(t, s) THEN {}
    ELSE UNION { UNION { UNION {
        MatchOf(t, s, s + alts[c[1]], s + alts[c[1]] + c[2], c[3]) :
          c \in {b \in cands : \A e \in cands : Before(b, e)} } :
        cands \in {Candidates(t, s, alts)} } :
        alts \in {SemesterAlts(t, s)} }

\* The next match finditer yields when it resumes at pos: the match at the
\* leftmost start position that has one.
NextMatch(t, pos) ==
    UNION { UNION {
        MatchAt(t, s) : s \in {r \in starts : \A q \in starts : r <= q} } :
        starts \in { {s \in pos..Len(t) : MatchAt(t, s) # {}} } }

-----------------------------------------------------------------------------
(* Step 3: filters and the split of the digit block.                       *)

ignore_phrases == {
    <<1087,1091,1083,32,1074,1099,1073,1086,1088,1085,1099,1093,32,1076,1080,
      1089,1094,1080,1087,1083,1080,1085>>,
    <<1086,1073,1103,1079,1072,1090,1077,1083,1100,1085,1099,1077,32,1076,
      1080,1089,1094,1080,1087,1083,1080,1085,1099>>,
    <<1073,1083,1086,1082>>,
    <<1087,1088,1072,1082,1090,1080,1082,1072>>,
    <<1075,1080,1072>>,
    <<1092,1072,1082,1091,1083,1100,1090,1072,1090,1080,1074,1085,1099,1077>>,
    <<1091,1085,1080,1074,1077,1088,1089,1072,1083,1100,1085,1072,1103>>,
    <<1084,1080,1088,1086,1074,1086,1079,1079,1088,1077,1085,1095,1077,1089,
      1082,1080,1081>>,
    <<1072,1089,1087,1080,1088,1072,1085,1090,1089,1082,1080,1081,32,1090,
      1088,1077,1082>>,
    <<115,111,102,116,32,115,107,105,108,108,115>>,
    <<1080,1085,1086,1089,1090,1088,1072,1085,1085,1099,1081,32,1103,1079,
      1099,1082>>,
    <<1089,1077,1084,1077,1089,1090,1088>>,
    <<1084,1072,1075,1080,1089,1090,1088,1072,1090,1091,1088,1072,47,1072,
      1089,1087,1080,1088,1072,1085,1090,1091,1088,1072>>,
    <<1084,1099,1096,1083,1077,1085,1080,1077>>,
    <<1082,1088,1077,1072,1090,1080,1074,1085,1099,1077,32,1090,1077,1093,
      1085,1086,1083,1086,1075,1080,1080>>,
    <<1087,1088,1077,1076,1087,1088,1080,1085,1080,1084,1072,1090,1077,1083,
      1100,1089,1082,1072,1103,32,1082,1091,1083,1100,1090,1091,1088,1072>>,
    <<1080,1089,1090,1086,1088,1080,1103,32,1080,32,1092,1080,1083,1086,1089,
      1086,1092,1080,1103,32,1085,1072,1091,1082,1080>> }

\* course_name of a match
CourseName(m) == ReplaceNewlines(Strip(m.name))

IsHeaderCaseSensitive(course_name) ==
    \E phrase \in ignore_phrases : Contains(course_name, phrase)

\* any(phrase in course_name.lower() for phrase in ignore_phrases)
IsHeader(course_name) ==
    \E low \in {Lower(course_name)} :
        \E phrase \in ignore_phrases : Contains(low, phrase)

SplitNumbersTwoDigitCredits(numbers_str) ==
    IF Len(numbers_str) \in {4, 5}
    THEN <<ToInt(SubSeq(numbers_str, 1, 2)),
           ToInt(SubSeq(numbers_str, 3, Len(numbers_str)))>>
    ELSE IF Len(numbers_str) = 3
    THEN <<ToInt(SubSeq(numbers_str, 1, 1)), ToInt(SubSeq(numbers_str, 2, 3))>>
    ELSE <<0, 0>>

\* <<credits, hours>> by the length of the digit block; <<0, 0>> otherwise
SplitNumbers(numbers_str) ==
    IF Len(numbers_str) = 5
    THEN <<ToInt(SubSeq(numbers_str, 1, 2)), ToInt(SubSeq(numbers_str, 3, 5))>>
    ELSE IF Len(numbers_str) = 4
    THEN <<ToInt(SubSeq(numbers_str, 1, 1)), ToInt(SubSeq(numbers_str, 2, 4))>>
    ELSE IF Len(numbers_str) = 3
    THEN <<ToInt(SubSeq(numbers_str, 1, 1)), ToInt(SubSeq(numbers_str, 2, 3))>>
    ELSE <<0, 0>>

\* the final sanity check on the parsed values
SanityCheck(credits, hours) == credits > 0 /\ credits < 30 /\ hours > 0

\* The Course a match would append.
CourseOf(m) ==
    TheOnly({ [name |-> CourseName(m),
               semester |-> Strip(m.semester),
               credits |-> split[1],
               hours |-> split[2]] :
              split \in {SplitNumbers(Strip(m.numbers))} })

\* Whether the loop body appends the Course of match m: not a header, not
\* the number zero, and the sanity check.
Accepts(m) ==
    \E c \in {CourseOf(m)} :
        /\ ~IsHeader(c.name)
        /\ ToInt(Strip(m.numbers)) # 0
        /\ SanityCheck(c.credits, c.hours)

\* The whole loop over finditer, from scan position pos.
RECURSIVE CoursesFrom(_, _)
CoursesFrom(t, pos) ==
    TheOnly({
        IF ms = {} THEN <<>>
        ELSE TheOnly({ (IF Accepts(m) THEN <<CourseOf(m)>> ELSE <<>>)
                       \o CoursesFrom(t, m.end) : m \in ms }) :
        ms \in {NextMatch(t, pos)} })

parse_courses_from_pdf_text(text) ==
    TheOnly({ CoursesFrom(t, 1) : t \in {Repair(text)} })

-----------------------------------------------------------------------------
(* The pipeline: what the network and the file system can hand back.       *)

\* None is the empty sequence, a value x that is not None is <<x>>.
None == <<>>
Some(x) == <<x>>

\* urls of main, each split at "/"
urls ==
    << <<"https:", "", "abit.itmo.ru", "program", "master", "ai">>,
       <<"https:", "", "abit.itmo.ru", "program", "master", "ai_product">> >>

\* url.split("/")[-1]
ProgramKey(url) == url[Len(url)]

Keys == {ProgramKey(urls[u]) : u \in DOMAIN urls}

\* The stages of scrape_program_data, in the order of its statements.
StageOrder ==
    <<"fetch", "name", "next_data", "id", "download", "text", "parse">>
Stages == {StageOrder[i] : i \in DOMAIN StageOrder}

\* The key path extract_program_id subscripts.
KeyPath == <<"props", "pageProps", "apiProgram", "id">>

\* A decoded JSON value: dicts of one key each, nested along path, around
\* the value leaf.
IntLeaf(n) == [kind |-> "int", n |-> n]
NullLeaf == [kind |-> "null", n |-> 0]
EmptyDictLeaf == [kind |-> "dict", n |-> 0]
ListLeaf == [kind |-> "list", n |-> 1]
Docs ==
    { [path |-> KeyPath, leaf |-> IntLeaf(42)],
      [path |-> KeyPath, leaf |-> IntLeaf(0)],
      [path |-> <<"props", "pageProps">>, leaf |-> EmptyDictLeaf],
      [path |-> <<"props">>, leaf |-> NullLeaf],
      [path |-> <<>>, leaf |-> EmptyDictLeaf],
      [path |-> <<>>, leaf |-> ListLeaf] }

\* bool(x) of a JSON leaf and of a decoded document
LeafTruthy(leaf) ==
    \/ leaf.kind = "int" /\ leaf.n # 0
    \/ leaf.kind = "list" /\ leaf.n # 0
DocTruthy(doc) == doc.path # <<>> \/ LeafTruthy(doc.leaf)

\* The <script id="__NEXT_DATA__"> element of a page: absent, present with
\* .string None (no single text child), or present with text that is JSON
\* (of value doc) or is not.
Scripts ==
    { [present |-> FALSE, string |-> "none", doc |-> d] :
          d \in {[path |-> <<>>, leaf |-> NullLeaf]} }
    \cup { [present |-> TRUE, string |-> s, doc |-> d] :
          s \in {"none", "invalid"}, d \in {[path |-> <<>>, leaf |-> NullLeaf]} }
    \cup { [present |-> TRUE, string |-> "json", doc |-> d] : d \in Docs }

\* The <h1> of a page: None, or its text.
Headings == {None, Some(<<SP>>), Some(<<65, 73>>)}

Pages == [h1 : Headings, script : Scripts]

\* Page texts of the curriculum PDF: "2a136" and "2 Gia 136" with the
\* Cyrillic header word (1043, 1080, 1072).
PageCourse == <<50, 97, 49, 51, 54>>
PageHeader == <<50, SP, 1043, 1080, 1072, SP, 49, 51, 54>>

\* A response body: empty, or bytes PyPDF2 reads (valid) or not, with the
\* text of each page.
PdfFiles ==
    { [empty |-> TRUE, valid |-> FALSE, pages |-> <<>>],
      [empty |-> FALSE, valid |-> FALSE, pages |-> <<>>],
      [empty |-> FALSE, valid |-> TRUE, pages |-> <<>>],
      [empty |-> FALSE, valid |-> TRUE, pages |-> << <<SP>> >>],
      [empty |-> FALSE, valid |-> TRUE, pages |-> <<PageCourse>>],
      [empty |-> FALSE, valid |-> TRUE, pages |-> <<PageCourse, PageHeader>>] }

\* The artifact file: missing, or holding a Dataset, or left truncated by
\* a write that failed after open(filename, "w").
NoArtifact == [exists |-> FALSE, intact |-> TRUE, content |-> <<>>]

-----------------------------------------------------------------------------
(* The stage functions.                                                    *)

\* extract_program_name
extract_program_name(page) ==
    IF page.h1 = None THEN None ELSE Some(Strip(page.h1[1]))

\* extract_next_data: "value" with the decoded document, "none", or the
\* TypeError json.loads raises for None, which the function does not catch.
extract_next_data(page) ==
    IF ~page.script.present THEN [outcome |-> "none", value |-> None]
    ELSE IF page.script.string = "none"
    THEN [outcome |-> "TypeError", value |-> None]
    ELSE IF page.script.string = "invalid"
    THEN [outcome |-> "none", value |-> None]
    ELSE [outcome |-> "value", value |-> Some(page.script.doc)]

\* next_data["props"]["pageProps"]["apiProgram"]["id"], subscript i onward:
\* a dict without the key raises KeyError, a value that is no dict raises
\* TypeError.
RECURSIVE Subscript(_, _)
Subscript(doc, i) ==
    IF i > Len(KeyPath) THEN [outcome |-> "value", value |-> Some(doc.leaf)]
    ELSE IF i <= Len(doc.path)
    THEN IF doc.path[i] = KeyPath[i] THEN Subscript(doc, i + 1)
         ELSE [outcome |-> "KeyError", value |-> None]
    ELSE IF doc.leaf.kind = "dict"
    THEN [outcome |-> "KeyError", value |-> None]
    ELSE [outcome |-> "TypeError", value |-> None]

\* extract_program_id: catches KeyError only.
extract_program_id(doc) ==
    LET r == Subscript(doc, 1)
    IN  IF r.outcome = "KeyError" THEN [outcome |-> "none", value |-> None]
        ELSE r

\* bool(program_id)
IdTruthy(id) == id # None /\ LeafTruthy(id[1])

\* parse_pdf_content: the page texts, each followed by "\n", stripped.
RECURSIVE JoinPages(_)
JoinPages(pages) ==
    IF pages = <<>> THEN <<>>
    ELSE Head(pages) \o <<NL>> \o JoinPages(Tail(pages))

parse_pdf_content(file) ==
    IF ~file.valid THEN None ELSE Some(Strip(JoinPages(file.pages)))

\* json.dump of data merged into what the file held.
SaveMerging(data_, old, outcome) ==
    IF outcome = "open_error" THEN old
    ELSE IF outcome = "write_error"
    THEN [exists |-> TRUE, intact |-> FALSE, content |-> <<>>]
    ELSE [exists |-> TRUE, intact |-> TRUE,
          content |-> [k \in DOMAIN data_ \cup DOMAIN old.content |->
                          IF k \in DOMAIN data_ THEN data_[k]
                          ELSE old.content[k]]]

\* save_data_to_json: the file after the call.  open(filename, "w") either
\* fails and leaves the file alone or truncates it; json.dump then writes
\* all of data or fails part-way.
SaveDataToJson(data_, old, outcome) ==
    IF outcome = "open_error" THEN old
    ELSE IF outcome = "write_error"
    THEN [exists |-> TRUE, intact |-> FALSE, content |-> <<>>]
    ELSE [exists |-> TRUE, intact |-> TRUE, content |-> data_]

-----------------------------------------------------------------------------
(* Initial states.                                                         *)

ParserIdle ==
    /\ pdf_text = <<>>
    /\ processed_text = <<>>
    /\ scan_pos = 1
    /\ courses = <<>>
    /\ matched = <<>>
    /\ ppc = "done"

NoStages == [u \in DOMAIN urls |-> [s \in Stages |-> "none"]]
NoExecs == [u \in DOMAIN urls |-> [s \in Stages |-> 0]]
NoGets == [u \in DOMAIN urls |-> [page |-> 0, pdf |-> 0]]

PipelineIdle ==
    /\ pc = "idle"
    /\ url_idx = 1
    /\ soup = None
    /\ program_name = None
    /\ next_data = None
    /\ program_id = None
    /\ pdf_bytes = None
    /\ pdf_content = None
    /\ data = None
    /\ all_data = <<>>
    /\ artifact = NoArtifact
    /\ prev_artifact = NoArtifact
    /\ save_result = "none"
    /\ stage = NoStages
    /\ execs = NoExecs
    /\ gets = NoGets
    /\ runs = 0

\* The program as started: no run of main yet, no artifact on disk.
Init == ParserIdle /\ PipelineIdle

-----------------------------------------------------------------------------
(* scrape_program_data and main, one action per stage.                     *)

Ran(u, s, ok) ==
    /\ stage' = [stage EXCEPT ![u][s] = IF ok THEN "ok" ELSE "fail"]
    /\ execs' = [execs EXCEPT ![u][s] = @ + 1]

\* main, up to the first call of scrape_program_data
StartRun ==
    /\ pc \in {"idle", "done", "crashed"}
    /\ runs < MaxRuns
    /\ runs' = runs + 1
    /\ pc' = "fetch"
    /\ url_idx' = 1
    /\ all_data' = <<>>
    /\ prev_artifact' = artifact
    /\ save_result' = "none"
    /\ stage' = NoStages
    /\ execs' = NoExecs
    /\ gets' = NoGets
    /\ soup' = None /\ program_name' = None /\ next_data' = None
    /\ program_id' = None /\ pdf_bytes' = None /\ pdf_content' = None
    /\ data' = None
    /\ UNCHANGED <<artifact, parserVars>>

\* soup = fetch_webpage(url); if not soup: return None
FetchWebpage ==
    /\ pc = "fetch"
    /\ \E r \in {None} \cup {Some(p) : p \in Pages} :
          /\ soup' = r
          /\ Ran(url_idx, "fetch", r # None)
          /\ pc' = IF r = None THEN "record" ELSE "name"
    /\ gets' = [gets EXCEPT ![url_idx].page = @ + 1]
    /\ UNCHANGED <<url_idx, program_name, next_data, program_id, pdf_bytes,
                   pdf_content, data, all_data, artifact, prev_artifact,
                   save_result, runs, parserVars>>

\* program_name = extract_program_name(soup); if not program_name: return None
ExtractProgramName ==
    /\ pc = "name"
    /\ LET r == extract_program_name(soup[1])
           ok == r # None /\ r[1] # <<>>
       IN  /\ program_name' = r
           /\ Ran(url_idx, "name", ok)
           /\ pc' = IF ok THEN "next_data" ELSE "record"
    /\ UNCHANGED <<url_idx, soup, next_data, program_id, pdf_bytes,
                   pdf_content, data, all_data, artifact, prev_artifact,
                   save_result, gets, runs, parserVars>>

\* next_data = extract_next_data(soup); if not next_data: return None
ExtractNextData ==
    /\ pc = "next_data"
    /\ LET r == extract_next_data(soup[1])
           ok == r.outcome = "value" /\ DocTruthy(r.value[1])
       IN  /\ next_data' = r.value
           /\ Ran(url_idx, "next_data", ok)
           /\ pc' = IF r.outcome = "TypeError" THEN "crashed"
                    ELSE IF ok THEN "id" ELSE "record"
    /\ UNCHANGED <<url_idx, soup, program_name, program_id, pdf_bytes,
                   pdf_content, data, all_data, artifact, prev_artifact,
                   save_result, gets, runs, parserVars>>

\* program_id = extract_program_id(next_data); if not program_id: return None
ExtractProgramId ==
    /\ pc = "id"
    /\ LET r == extract_program_id(next_data[1])
           ok == r.outcome = "value" /\ IdTruthy(r.value)
       IN  /\ program_id' = r.value
           /\ Ran(url_idx, "id", ok)
           /\ pc' = IF r.outcome = "TypeError" THEN "crashed"
                    ELSE IF ok THEN "download" ELSE "record"
    /\ UNCHANGED <<url_idx, soup, program_name, next_data, pdf_bytes,
                   pdf_content, data, all_data, artifact, prev_artifact,
                   save_result, gets, runs, parserVars>>

\* download_pdf that asks again after a failed request
DownloadPdfRetrying ==
    /\ pc = "download"
    /\ gets[url_idx].pdf < 2
    /\ \E r \in {None} \cup {Some(f) : f \in PdfFiles} :
          LET ok == r # None /\ ~r[1].empty
          IN  /\ pdf_bytes' = r
              /\ Ran(url_idx, "download", ok)
              /\ pc' = IF ok THEN "text"
                       ELSE IF r = None /\ gets[url_idx].pdf = 0 THEN "download"
                       ELSE "record"
    /\ gets' = [gets EXCEPT ![url_idx].pdf = @ + 1]
    /\ UNCHANGED <<url_idx, soup, program_name, next_data, program_id,
                   pdf_content, data, all_data, artifact, prev_artifact,
                   save_result, runs, parserVars>>

\* download_pdf whose failure the caller does not test
DownloadPdfUnchecked ==
    /\ pc = "download"
    /\ \E r \in {None} \cup {Some(f) : f \in PdfFiles} :
          LET ok == r # None /\ ~r[1].empty
          IN  /\ pdf_bytes' = IF ok THEN r
                              ELSE Some([empty |-> TRUE, valid |-> FALSE,
                                         pages |-> <<>>])
              /\ Ran(url_idx, "download", ok)
              /\ pc' = "text"
    /\ gets' = [gets EXCEPT ![url_idx].pdf = @ + 1]
    /\ UNCHANGED <<url_idx, soup, program_name, next_data, program_id,
                   pdf_content, data, all_data, artifact, prev_artifact,
                   save_result, runs, parserVars>>

\* pdf_bytes = download_pdf(program_id); if not pdf_bytes: return None
DownloadPdf ==
    /\ pc = "download"
    /\ \E r \in {None} \cup {Some(f) : f \in PdfFiles} :
          LET ok == r # None /\ ~r[1].empty
          IN  /\ pdf_bytes' = r
              /\ Ran(url_idx, "download", ok)
              /\ pc' = IF ok THEN "text" ELSE "record"
    /\ gets' = [gets EXCEPT ![url_idx].pdf = @ + 1]
    /\ UNCHANGED <<url_idx, soup, program_name, next_data, program_id,
                   pdf_content, data, all_data, artifact, prev_artifact,
                   save_result, runs, parserVars>>

\* The Program record scrape_program_data returns.
Program(courses_) ==
    [program_name |-> program_name[1],
     program_id |-> program_id[1].n,
     courses |-> courses_]

\* pdf_content = parse_pdf_content(pdf_bytes); if not pdf_content: the
\* warning, courses = [] and the return of the record
ParsePdfContent ==
    /\ pc = "text"
    /\ LET r == parse_pdf_content(pdf_bytes[1])
           ok == r # None /\ r[1] # <<>>
       IN  /\ pdf_content' = r
           /\ Ran(url_idx, "text", ok)
           /\ pc' = IF ok THEN "parse" ELSE "record"
           /\ data' = IF ok THEN data ELSE Some(Program(<<>>))
    /\ UNCHANGED <<url_idx, soup, program_name, next_data, program_id,
                   pdf_bytes, all_data, artifact, prev_artifact, save_result,
                   gets, runs, parserVars>>

\* courses = parse_courses_from_pdf_text(pdf_content) and the return
ParseCourses ==
    /\ pc = "parse"
    /\ data' = Some(Program(parse_courses_from_pdf_text(pdf_content[1])))
    /\ Ran(url_idx, "parse", TRUE)
    /\ pc' = "record"
    /\ UNCHANGED <<url_idx, soup, program_name, next_data, program_id,
                   pdf_bytes, pdf_content, all_data, artifact, prev_artifact,
                   save_result, gets, runs, parserVars>>

\* main: if data: all_data[program_key] = data, and on to the next URL
Record ==
    /\ pc = "record"
    /\ all_data' =
          IF data # None
          THEN [k \in DOMAIN all_data \cup {ProgramKey(urls[url_idx])} |->
                   IF k = ProgramKey(urls[url_idx]) THEN data[1]
                   ELSE all_data[k]]
          ELSE all_data
    /\ IF url_idx < Len(urls)
       THEN url_idx' = url_idx + 1 /\ pc' = "fetch"
       ELSE url_idx' = url_idx /\ pc' = "save"
    /\ soup' = None /\ program_name' = None /\ next_data' = None
    /\ program_id' = None /\ pdf_bytes' = None /\ pdf_content' = None
    /\ data' = None
    /\ UNCHANGED <<artifact, prev_artifact, save_result, stage, execs, gets,
                   runs, parserVars>>

\* main: if all_data: save_data_to_json(all_data), else the message
Save ==
    /\ pc = "save"
    /\ IF all_data # <<>>
       THEN \E outcome \in {"ok", "open_error", "write_error"} :
               /\ artifact' = SaveDataToJson(all_data, artifact, outcome)
               /\ save_result' = outcome
       ELSE artifact' = artifact /\ save_result' = "skipped"
    /\ pc' = "done"
    /\ UNCHANGED <<url_idx, soup, program_name, next_data, program_id,
                   pdf_bytes, pdf_content, data, all_data, prev_artifact,
                   stage, execs, gets, runs, parserVars>>

Next ==
    \/ StartRun
    \/ FetchWebpage
    \/ ExtractProgramName
    \/ ExtractNextData
    \/ ExtractProgramId
    \/ DownloadPdf
    \/ ParsePdfContent
    \/ ParseCourses
    \/ Record
    \/ Save

Spec == Init /\ [][Next]_vars

-----------------------------------------------------------------------------
(* parse_courses_from_pdf_text on its own, for every text of a bounded     *)
(* set: Step 1, then one action per iteration of the loop over finditer.   *)

\* The pieces input texts are made of: the semester "2", a space, a
\* newline, a letter, the header word "Gia" in Cyrillic with a capital
\* (1043, 1080, 1072), and digit blocks of 2 to 5 digits.
Tokens ==
    { <<50>>, <<SP>>, <<NL>>, <<97>>, <<1043, 1080, 1072>>,
      <<49, 50>>, <<49, 51, 54>>, <<48, 48, 48>>, <<51, 49, 48, 56>>,
      <<49, 50, 52, 51, 50>> }

RECURSIVE Concat(_)
Concat(ts) == IF ts = <<>> THEN <<>> ELSE Head(ts) \o Concat(Tail(ts))

TokenTexts ==
    UNION { {Concat(ts) : ts \in [1..n -> Tokens]} : n \in 0..MaxTokens }

PipelineUnused == UNCHANGED pipelineVars

ParserInit ==
    /\ pdf_text \in TokenTexts
    /\ processed_text = <<>>
    /\ scan_pos = 1
    /\ courses = <<>>
    /\ matched = <<>>
    /\ ppc = "start"
    /\ PipelineIdle

\* Step 1: the two substitutions
Step1 ==
    /\ ppc = "start"
    /\ processed_text' = Repair(pdf_text)
    /\ ppc' = "scan"
    /\ UNCHANGED <<pdf_text, scan_pos, courses, matched>>
    /\ PipelineUnused

\* One iteration of "for match in course_pattern.finditer(processed_text)":
\* the next match, the filters, the split, and the append if it is kept.
Iterate ==
    /\ ppc = "scan"
    /\ \E m \in NextMatch(processed_text, scan_pos) :
          /\ scan_pos' = m.end
          /\ matched' = Append(matched, [m |-> m, accepted |-> Accepts(m),
                                       course |-> CourseOf(m)])
          /\ courses' = IF Accepts(m) THEN Append(courses, CourseOf(m))
                        ELSE courses
    /\ UNCHANGED <<pdf_text, processed_text, ppc>>
    /\ PipelineUnused

\* finditer is exhausted: return courses
Return ==
    /\ ppc = "scan"
    /\ NextMatch(processed_text, scan_pos) = {}
    /\ ppc' = "done"
    /\ UNCHANGED <<pdf_text, processed_text, scan_pos, courses, matched>>
    /\ PipelineUnused

ParserNext ==
    \/ Step1
    \/ Iterate
    \/ Return

SpecParser == ParserInit /\ [][ParserNext]_vars

-----------------------------------------------------------------------------
(* Step 1 on its own, for every text up to MaxRepairLen characters over    *)
(* one or two characters of each class: digits, an ASCII and a Cyrillic    *)
(* letter, U+0451, "/", space and newline.                                 *)

RepairAlphabet == {49, 50, 97, 1103, 1105, 47, SP, NL}

RepairTexts == UNION { [1..n -> RepairAlphabet] : n \in 0..MaxRepairLen }

RepairInit ==
    /\ pdf_text \in RepairTexts
    /\ processed_text = <<>>
    /\ scan_pos = 1
    /\ courses = <<>>
    /\ matched = <<>>
    /\ ppc = "start"
    /\ PipelineIdle

RepairNext == Step1

SpecRepair == RepairInit /\ [][RepairNext]_vars

-----------------------------------------------------------------------------
(* parse_courses_from_pdf_text on texts of up to MaxLines lines, each line *)
(* a semester token, a name and a digit block, any of them possibly        *)
(* missing, glued together or separated by a space.                        *)

LineSemesters == {<<>>, <<50>>, Sem123}
LineGaps == {<<>>, <<SP>>}
LineNames == {<<>>, <<97>>, <<1043, 1080, 1072>>}
LineDigits ==
    { <<>>, <<49, 50>>, <<49, 51, 54>>, <<48, 48, 48>>, <<51, 49, 48, 56>>,
      <<49, 50, 52, 51, 50>>, <<51, 48, 48, 48, 48>> }

Lines ==
    { sem \o g1 \o name \o g2 \o digits :
        sem \in LineSemesters, g1 \in LineGaps, name \in LineNames,
        g2 \in LineGaps, digits \in LineDigits }

RECURSIVE JoinLines(_)
JoinLines(ls) ==
    IF Len(ls) = 1 THEN ls[1]
    ELSE ls[1] \o <<NL>> \o JoinLines(Tail(ls))

LinesInit ==
    /\ \E n \in 1..MaxLines : \E ls \in [1..n -> Lines] : pdf_text = JoinLines(ls)
    /\ processed_text = <<>>
    /\ scan_pos = 1
    /\ courses = <<>>
    /\ matched = <<>>
    /\ ppc = "start"
    /\ PipelineIdle

SpecLines == LinesInit /\ [][ParserNext]_vars

-----------------------------------------------------------------------------
(* Properties of the pipeline (specification Spec).                        *)

KeyOf(u) == ProgramKey(urls[u])

\* main has finished with URL u in the current run.
Recorded(u) == url_idx > u \/ pc \in {"save", "done"}

\* C1, as claimed: whenever page fetch, embedded-data extraction, id
\* resolution, PDF download or PDF text extraction has failed for a URL,
\* the Dataset holds no entry under that URL's key.
C1_NoEntryOnAnyStageFailure ==
    \A u \in DOMAIN urls :
        \A s \in {"fetch", "next_data", "id", "download", "text"} :
            stage[u][s] = "fail" => KeyOf(u) \notin DOMAIN all_data

\* C1, amended: a failure of page fetch, embedded-data extraction, id
\* resolution or PDF download leaves the Dataset without an entry for the
\* URL; a failure of PDF text extraction yields an entry for the URL whose
\* course list is empty.
C1_NoEntryOnFailureBeforeText ==
    \A u \in DOMAIN urls :
        /\ \A s \in {"fetch", "next_data", "id", "download"} :
              stage[u][s] = "fail" => KeyOf(u) \notin DOMAIN all_data
        /\ stage[u]["text"] = "fail" /\ Recorded(u) =>
              /\ KeyOf(u) \in DOMAIN all_data
              /\ all_data[KeyOf(u)].courses = <<>>

\* A run in which the first URL's download failed and the second URL's
\* text extraction failed.
C1_Witness ==
    /\ pc = "done"
    /\ stage[1]["download"] = "fail"
    /\ stage[2]["text"] = "fail"
    /\ DOMAIN all_data = {KeyOf(2)}

\* Every stage of URL u ran and succeeded.
AllStagesOk(u) == \A s \in Stages : stage[u][s] = "ok"

\* C2: when a run ends, every URL has been processed whatever happened to
\* the others, and (unless the write itself failed) every URL whose own
\* stages all succeeded has its entry in the persisted Dataset.
C2_PartialFailureIsolation ==
    pc \in {"done", "crashed"} =>
        /\ \A u \in DOMAIN urls : execs[u]["fetch"] = 1
        /\ save_result \notin {"open_error", "write_error"} =>
              \A u \in DOMAIN urls :
                  AllStagesOk(u) =>
                      /\ artifact.exists
                      /\ KeyOf(u) \in DOMAIN artifact.content
                      /\ KeyOf(u) \in DOMAIN all_data
                      /\ artifact.content[KeyOf(u)] = all_data[KeyOf(u)]

\* C3, as claimed: after a completed run (whose write, if any, did not
\* fail) the artifact holds exactly the Dataset that run assembled; a
\* missing artifact holds nothing.
C3_ArtifactIsLatestDataset ==
    pc = "done" /\ save_result \notin {"open_error", "write_error"} =>
        artifact.content = all_data

\* C3, amended: after a completed run that assembled a non-empty Dataset
\* and wrote it, the artifact holds exactly that Dataset; a run in which
\* every URL failed writes nothing and leaves the artifact as it was.
C3_ArtifactReplacedUnlessEmpty ==
    pc = "done" =>
        /\ all_data # <<>> => save_result # "skipped"
        /\ save_result = "ok" =>
              artifact = [exists |-> TRUE, intact |-> TRUE, content |-> all_data]
        /\ all_data = <<>> =>
              save_result = "skipped" /\ artifact = prev_artifact

\* A second run wrote a Dataset that lacks an entry the first run wrote.
C3_Witness ==
    /\ pc = "done"
    /\ runs = 2
    /\ save_result = "ok"
    /\ \E k \in DOMAIN prev_artifact.content : k \notin DOMAIN artifact.content

\* C10: within a run and for each URL, no stage runs twice, a stage runs
\* only after every earlier stage succeeded, at most one page GET and one
\* PDF GET are issued, and none after a fetch of that URL failed.
C10_ForwardOnlyNoRetry ==
    \A u \in DOMAIN urls :
        /\ \A s \in Stages : execs[u][s] <= 1
        /\ \A i \in DOMAIN StageOrder :
              execs[u][StageOrder[i]] >= 1 =>
                  \A j \in 1..(i - 1) : stage[u][StageOrder[j]] = "ok"
        /\ gets[u].page = execs[u]["fetch"]
        /\ gets[u].pdf = execs[u]["download"]
        /\ gets[u].page <= 1 /\ gets[u].pdf <= 1
        /\ stage[u]["fetch"] = "fail" => gets[u].page = 1 /\ gets[u].pdf = 0
        /\ stage[u]["download"] = "fail" => gets[u].pdf = 1

\* A run whose first URL failed at the page fetch and whose second URL
\* went through every stage.
C10_Witness ==
    /\ pc = "done"
    /\ stage[1]["fetch"] = "fail"
    /\ AllStagesOk(2)

-----------------------------------------------------------------------------
(* Properties of the whitespace repair (specification SpecRepair).         *)

\* C8: the repair applied to a repaired text changes nothing.
C8_RepairIdempotent ==
    ppc = "scan" => Repair(processed_text) = processed_text

\* A text in which both substitutions inserted a space.
C8_Witness ==
    /\ ppc = "scan"
    /\ \E i \in 1..(Len(pdf_text) - 1) :
          IsDigit(pdf_text[i]) /\ IsLetter(pdf_text[i + 1])
    /\ \E i \in 1..(Len(pdf_text) - 1) :
          IsLetterOrSlash(pdf_text[i]) /\ IsDigit(pdf_text[i + 1])
    /\ Len(processed_text) >= Len(pdf_text) + 2

-----------------------------------------------------------------------------
(* Properties of the parser (specifications SpecParser and SpecLines).     *)

\* C4: every Course in the list has 0 < credits < 30 and hours > 0, and its
\* name in lower case contains no suppressed phrase; a match whose name in
\* lower case contains one yields no Course.
C4_RetentionInvariant ==
    /\ \A i \in DOMAIN courses :
          /\ 0 < courses[i].credits /\ courses[i].credits < 30
          /\ courses[i].hours > 0
          /\ \A phrase \in ignore_phrases :
                ~Contains(Lower(courses[i].name), phrase)
    /\ \A i \in DOMAIN matched :
          (\E phrase \in ignore_phrases :
              Contains(Lower(Strip(matched[i].m.name)), phrase))
          => ~matched[i].accepted

\* The parser returned a Course.
C4_Witness == ppc = "done" /\ courses # <<>>

\* 10 to the power n
RECURSIVE Pow10(_)
Pow10(n) == IF n = 0 THEN 1 ELSE 10 * Pow10(n - 1)

\* C5: the Course of a match has its credits and hours from the digit run
\* by its length alone: 5 digits give the first 2 and the last 3, 4 digits
\* the first 1 and the last 3, 3 digits the first 1 and the last 2; a run
\* of any other length yields no Course.
C5_DigitSplit ==
    \A i \in DOMAIN matched :
        LET d == matched[i].m.numbers
            c == matched[i].course
            hourDigits == IF Len(d) = 3 THEN 2 ELSE 3
        IN  /\ Len(d) \notin {3, 4, 5} => ~matched[i].accepted
            /\ matched[i].accepted =>
                  /\ c.credits = ToInt(d) \div Pow10(hourDigits)
                  /\ c.hours = ToInt(d) % Pow10(hourDigits)
                  /\ \E j \in DOMAIN courses : courses[j] = c

\* A Course came out of a 5-digit run.
C5_Witness ==
    \E i \in DOMAIN matched :
        matched[i].accepted /\ Len(matched[i].m.numbers) = 5

\* Position of the last character of the digit run of match m.
NumEnd(m) == m.numStart + Len(m.numbers) - 1

\* Where the line holding position i ends: the position of its newline, or
\* one past the end of the text.
LineEnd(t, i) ==
    CHOOSE q \in i..(Len(t) + 1) :
        AtLineEnd(t, q) /\ \A r \in i..(q - 1) : ~AtLineEnd(t, r)

\* The line holding position i ends in the given digits.
LineEndsWith(t, i, suffix) ==
    \E q \in {LineEnd(t, i)} :
        /\ q - Len(suffix) >= 1
        /\ \A r \in (q - Len(suffix))..(q - 1) : t[r] # NL
        /\ SubSeq(t, q - Len(suffix), q - 1) = suffix

\* C6: no Course comes from a line that ends in "000" or in "30000": no
\* part of an accepted match (semester, name, digits) lies on such a line.
C6_NoCourseFromDegenerateLine ==
    \A i \in DOMAIN matched :
        matched[i].accepted =>
            \A p \in matched[i].m.start..NumEnd(matched[i].m) :
                /\ ~LineEndsWith(processed_text, p, <<48, 48, 48>>)
                /\ ~LineEndsWith(processed_text, p, <<51, 48, 48, 48, 48>>)

\* The line that starts at p has the form "1, 2, 3 <name> <digits>", its
\* name is no suppressed phrase and its digits (a block of 3 to 5 that ends
\* the line, starting at ds) split to valid credits and hours.
MultiSemesterLine(t, p, ds) ==
    /\ AtLineStart(t, p)
    /\ p + 6 <= Len(t) /\ SubSeq(t, p, p + 6) = Sem123
    /\ ds > p + 8
    /\ \A r \in p..(ds - 1) : t[r] # NL
    /\ IsSpace(t[p + 7]) /\ IsSpace(t[ds - 1])
    /\ Strip(SubSeq(t, p + 7, ds - 1)) # <<>>
    /\ ~IsHeader(Strip(SubSeq(t, p + 7, ds - 1)))
    /\ \E n \in {DigitRun(t, ds)} :
          /\ n \in 3..5
          /\ \E q \in {LineEnd(t, ds)} :
                \A r \in (ds + n)..(q - 1) : IsSpace(t[r])
          /\ \E v \in {ToInt(SubSeq(t, ds, ds + n - 1))} :
                \E h \in {IF n = 3 THEN 100 ELSE 1000} :
                    SanityCheck(v \div h, v % h)

\* C7: every emitted semester is "1", "2", "3", "4" or "1, 2, 3"; and when
\* the parser returns, every line of the form "1, 2, 3 <name> <digits>"
\* has given a Course whose semester is the whole "1, 2, 3", with the
\* credits and hours its digits split to.
C7_MultiSemesterPreserved ==
    /\ \A i \in DOMAIN courses :
          courses[i].semester \in {<<49>>, <<50>>, <<51>>, <<52>>, Sem123}
    /\ ppc = "done" =>
          \A p \in 1..Len(processed_text) :
              \A ds \in p..Len(processed_text) :
                  MultiSemesterLine(processed_text, p, ds) =>
                      \E i \in DOMAIN matched :
                          /\ matched[i].accepted
                          /\ matched[i].m.start = p
                          /\ matched[i].m.numStart = ds
                          /\ matched[i].course.semester = Sem123

\* C9: the semester, the name and the digit run of every Course come from
\* one line of the repaired text: the semester starts the line, no newline
\* lies between it and the end of the digit run, and the digit run is the
\* last digit block of that line, 2 to 5 digits long, followed on the line
\* by whitespace only.
C9_MatchWithinOneLine ==
    \A i \in DOMAIN matched :
        matched[i].accepted =>
            LET m == matched[i].m
                t == processed_text
            IN  /\ AtLineStart(t, m.start)
                /\ \A r \in m.start..NumEnd(m) : t[r] # NL
                /\ Len(m.numbers) \in 2..5
                /\ ~IsDigit(t[m.numStart - 1])
                /\ \A r \in (NumEnd(m) + 1)..(LineEnd(t, NumEnd(m)) - 1) :
                      IsSpace(t[r])

====
